---- MODULE Spec2Model ----
(***************************************************************************)
(* Model of the country pages: the single-country fetch, the bulk fetch    *)
(* with its fallback tiers, the generation wrappers around the Gemini      *)
(* client and the chat session kept in st.session_state.                   *)
(***************************************************************************)
EXTENDS Integers, Sequences, FiniteSets, TLC

VARIABLES
    \* single-country fetch (get_country_data in the three pages)
    fetchName,      \* the name argument
    fetchResp,      \* what the country directory service answers
    fetchFn,        \* which get_country_data ran ("none" before the call)
    fetchResult,    \* the value returned
    fetchRequests,  \* the requests issued, in order
    fetchRaised,    \* TRUE when an exception left the function
    \* bulk fetch (CountryAnalyzer.get_all_countries)
    bulkPc,             \* "start", "regions" (inside get_countries_by_regions), "done", "raised"
    bulkAllOutcome,     \* what the /all request answered
    bulkRegionOutcomes, \* what the region requests answered, in order
    bulkRequests,       \* the endpoints requested, in order
    all_countries,      \* the accumulator of get_countries_by_regions
    bulkResult,         \* the list returned
    sampleCalls,        \* number of calls of get_sample_data
    \* one-shot generation (ask_gemini, generate_country_insight,
    \* generate_travel_guide, generate_country_comparison and their buttons)
    credential,     \* TRUE when st.secrets holds GEMINI_API_KEY
    genName1,       \* first country name typed by the user
    genName2,       \* second (comparison) country name
    genResp1,       \* what the directory service answers for the first name
    genResp2,       \* what it answers for the second name
    genOutcome,     \* what model.generate_content does when called
    genHandler,     \* which handler ran ("none" before)
    genFn,          \* the generation function the handler called ("none" if none)
    genFetched,     \* the country records the handler fetched, in order
    genShown,       \* the st.error / st.warning messages of the handler
    genPrompt,      \* the prompt composed (<<>> if none)
    genResult,      \* the value the generation function returned
    genCalls,       \* number of model.generate_content calls
    genRaised,      \* TRUE when an exception left the handler
    \* chat page (Country_Chatbot.py script body)
    session_state,  \* st.session_state: holds chat_history once the page has run
    GEMINI_READY,   \* set at the top of every script run
    country_data,   \* the focus country fetched by the current run
    chatPc,         \* "idle": waiting at st.chat_input; "generating": inside ask_gemini
    pending,        \* the prompts handed to ask_gemini and not yet answered
    submissions,    \* number of user messages submitted so far
    chatCalls,      \* number of model.generate_content calls of the chat page
    \* dashboard (main of Country_Analysis.py)
    countries_data,     \* the list analyzer.get_all_countries() returned
    selected_region,    \* sidebar: region filter
    min_population,     \* sidebar: minimum population
    country_limit,      \* sidebar: number of countries to display
    sort_by,            \* sidebar: sort criterion
    dashPc,             \* "start", "done", "empty" (left at the st.error of line 417)
    kept,               \* filtered_countries after the filter loop
    ordered,            \* filtered_countries after the sort
    filtered_countries, \* filtered_countries after the slice: the shown list
    total_countries,
    total_population,
    avg_population,
    total_area,
    \* prompt composition (build_prompt, format_country_block and the prompts
    \* of the three one-shot generation functions)
    compEntry1,     \* the first country as the directory service sent it, or None
    compEntry2,     \* the second (comparison) country, or None
    compHistory,    \* the chat history handed to build_prompt
    compFn,         \* which composer ran ("none" before)
    compOptions,    \* the option values and the user message it was called with
    compCalls,      \* how many times it was called with these arguments
    compPrompt,     \* the prompt it composed
    compRaised      \* TRUE when composing raised

fetchVars == <<fetchName, fetchResp, fetchFn, fetchResult, fetchRequests, fetchRaised>>
bulkVars == <<bulkPc, bulkAllOutcome, bulkRegionOutcomes, bulkRequests, all_countries,
              bulkResult, sampleCalls>>
genInputs == <<credential, genName1, genName2, genResp1, genResp2, genOutcome>>
genVars == <<genInputs, genHandler, genFn, genFetched, genShown, genPrompt, genResult,
             genCalls, genRaised>>
chatVars == <<session_state, GEMINI_READY, country_data, chatPc, pending, submissions,
              chatCalls>>
dashInputs == <<selected_region, min_population, country_limit, sort_by>>
dashVars == <<countries_data, dashInputs, dashPc, kept, ordered, filtered_countries,
              total_countries, total_population, avg_population, total_area>>
compInputs == <<compEntry1, compEntry2, compHistory>>
compVars == <<compInputs, compFn, compOptions, compCalls, compPrompt, compRaised>>
vars == <<fetchVars, bulkVars, genVars, chatVars, dashVars, compVars>>

(***************************************************************************)
(* Python and JSON values.  Every value is tagged so that None, strings,   *)
(* numbers, lists and dicts can be told apart; Missing stands for a key    *)
(* that the JSON object does not have.                                     *)
(***************************************************************************)
None == [t |-> "None"]
Missing == [t |-> "missing"]
Str(s) == [t |-> "str", v |-> s]
Num(n) == [t |-> "int", v |-> n]
List(q) == [t |-> "list", v |-> q]
\* a dict is its items in insertion order, each <<key, value>>
Dict(items) == [t |-> "dict", v |-> items]

\* d.get(key, default) on a JSON object modelled as a record of tagged values
DictGet(d, key, default) == IF d[key] = Missing THEN default ELSE d[key]

\* Python truthiness of a tagged value
Truthy(x) ==
    CASE x.t = "None" -> FALSE
      [] x.t = "missing" -> FALSE
      [] x.t = "str" -> x.v /= ""
      [] x.t = "int" -> x.v /= 0
      [] OTHER -> Len(x.v) > 0

\* list(d.values()) and list(d.keys()) of a dict value
Values(d) == [i \in 1..Len(d.v) |-> d.v[i][2]]
Keys(d) == [i \in 1..Len(d.v) |-> d.v[i][1]]

\* items.get(key) of a dict value: None when the key is not there
ItemGet(d, key, default) ==
    IF \E i \in 1..Len(d.v) : d.v[i][1] = key
    THEN d.v[CHOOSE i \in 1..Len(d.v) : d.v[i][1] = key][2]
    ELSE default

(***************************************************************************)
(* The state of each page before it has run.                               *)
(***************************************************************************)
FetchIdle ==
    /\ fetchFn = "none"
    /\ fetchResult = None
    /\ fetchRequests = <<>>
    /\ fetchRaised = FALSE

BulkIdle ==
    /\ bulkPc = "start"
    /\ bulkAllOutcome = [kind |-> "none"]
    /\ bulkRegionOutcomes = <<>>
    /\ bulkRequests = <<>>
    /\ all_countries = <<>>
    /\ bulkResult = <<>>
    /\ sampleCalls = 0

GenIdle ==
    /\ genHandler = "none"
    /\ genFn = "none"
    /\ genFetched = <<>>
    /\ genShown = <<>>
    /\ genPrompt = <<>>
    /\ genResult = None
    /\ genCalls = 0
    /\ genRaised = FALSE

\* the chat page before its script has run in this session
ChatIdle ==
    /\ session_state = << >>
    /\ GEMINI_READY = FALSE
    /\ country_data = None
    /\ chatPc = "idle"
    /\ pending = <<>>
    /\ submissions = 0
    /\ chatCalls = 0

\* Python integers are unbounded and the populations of a few countries add
\* up to more than 32 bits hold: a total is kept as hi * Million + lo
Million == 1000000

Big(n) == [hi |-> n \div Million, lo |-> n % Million]

BigAdd(a, b) ==
    LET lo == a.lo + b.lo
    IN  [hi |-> a.hi + b.hi + lo \div Million, lo |-> lo % Million]

\* the quotient n / d of Python's true division, kept exact
Ratio(n, d) == [num |-> n, den |-> d]

\* the dashboard before main has computed anything
DashStart ==
    /\ dashPc = "start"
    /\ kept = <<>>
    /\ ordered = <<>>
    /\ filtered_countries = <<>>
    /\ total_countries = 0
    /\ total_population = Big(0)
    /\ avg_population = Ratio(Big(0), 1)
    /\ total_area = Big(0)

\* the dashboard when another page is the one running: nothing fetched, the
\* sidebar at its defaults
DashIdle ==
    /\ countries_data = <<>>
    /\ selected_region = "All"
    /\ min_population = Million
    /\ country_limit = 10
    /\ sort_by = "Population"
    /\ DashStart

\* no prompt composed yet
CompIdle ==
    /\ compFn = "none"
    /\ compOptions = [fn |-> "none"]
    /\ compCalls = 0
    /\ compPrompt = <<>>
    /\ compRaised = FALSE

\* the inputs of the composers when another page is the one running
CompInputsFixed ==
    /\ compEntry1 = None
    /\ compEntry2 = None
    /\ compHistory = <<>>

\* the inputs of the generation handlers when another page is the one running
GenInputsFixed ==
    /\ credential = TRUE
    /\ genName1 = ""
    /\ genName2 = ""
    /\ genResp1 = [kind |-> "raise"]
    /\ genResp2 = [kind |-> "raise"]
    /\ genOutcome = [kind |-> "raise"]

(***************************************************************************)
(* The country directory service: what one GET can answer.                 *)
(***************************************************************************)
NameVals == {Missing, None, Dict(<<>>),
             Dict(<< <<"common", Str("France")>>, <<"official", Str("French Republic")>> >>)}
CapitalVals == {Missing, None, List(<<>>), List(<<Str("Paris")>>)}
RegionVals == {Missing, None, Str("Europe")}
SubregionVals == {Missing, Str("Western Europe")}
PopulationVals == {Missing, None, Num(67391582)}
AreaVals == {Missing, Num(551695)}
LanguagesVals == {Missing, None, Dict(<<>>), Dict(<< <<"fra", Str("French")>> >>)}
CurrenciesVals == {Missing, Dict(<< <<"EUR", Str("Euro")>> >>)}
FlagVals == {Missing, Str("FR")}

Entries ==
    [name : NameVals, capital : CapitalVals, region : RegionVals,
     subregion : SubregionVals, population : PopulationVals, area : AreaVals,
     languages : LanguagesVals, currencies : CurrenciesVals, flag : FlagVals]

\* the entry of the spec's end-to-end scenario
France ==
    [name |-> Dict(<< <<"common", Str("France")>>, <<"official", Str("French Republic")>> >>),
     capital |-> List(<<Str("Paris")>>), region |-> Str("Europe"),
     subregion |-> Str("Western Europe"), population |-> Num(67391582),
     area |-> Num(551695), languages |-> Dict(<< <<"fra", Str("French")>> >>),
     currencies |-> Dict(<< <<"EUR", Str("Euro")>> >>), flag |-> Str("FR")]

\* a response body: text that is not JSON, or a JSON array of entries
BadJson == [t |-> "badjson"]
Bodies == {BadJson, List(<<>>)} \cup {List(<<e>>) : e \in Entries}

HttpOk == 200
HttpNotFound == 404

\* requests.get raises (connection error, timeout) or returns a response
Responses ==
    {[kind |-> "raise"]}
    \cup {[kind |-> "http", status |-> HttpNotFound, body |-> b] : b \in {BadJson, List(<<>>)}}
    \cup {[kind |-> "http", status |-> HttpOk, body |-> b] : b \in Bodies}

Names == {"", " ", "France", "Atlantis"}

\* a name made of whitespace only (the empty name included)
IsBlank(s) == s \in {"", " "}

(***************************************************************************)
(* CountryAnalyzer: the bulk fetch and its fallback tiers.                 *)
(***************************************************************************)
Country(n, r, p, a) == [name |-> n, region |-> r, population |-> p, area |-> a]

\* a region list that names one region twice
regionsRepeated == <<"africa", "africa", "asia", "europe", "oceania">>

\* a sample set without records
NoSampleData == <<>>

get_sample_data ==
    << Country("United States", "Americas", 331002651, 9833517),
       Country("India", "Asia", 1380004385, 3287263),
       Country("China", "Asia", 1402112000, 9706961),
       Country("Brazil", "Americas", 212559417, 8515767),
       Country("Germany", "Europe", 83240525, 357114),
       Country("Nigeria", "Africa", 206139587, 923768),
       Country("Australia", "Oceania", 25499884, 7692024),
       Country("Canada", "Americas", 38005238, 9984670),
       Country("Japan", "Asia", 125836021, 377930),
       Country("France", "Europe", 67391582, 551695) >>

regions == <<"africa", "americas", "asia", "europe", "oceania">>

\* what the live service holds for one region
LiveRegion(region) ==
    CASE region = "africa" -> << Country("Kenya", "Africa", 53771300, 580367) >>
      [] region = "americas" -> << Country("Peru", "Americas", 32971846, 1285216) >>
      [] region = "asia" -> << Country("Nepal", "Asia", 29136808, 147181),
                               Country("Qatar", "Asia", 2881060, 11586) >>
      [] region = "europe" -> << Country("Spain", "Europe", 47351567, 505992) >>
      [] OTHER -> << Country("Fiji", "Oceania", 896444, 18272) >>

LiveAll ==
    LiveRegion("africa") \o LiveRegion("americas") \o LiveRegion("asia")
        \o LiveRegion("europe") \o LiveRegion("oceania")

\* what one bulk GET can answer, given the records the endpoint holds
BulkOutcomes(live) ==
    { [kind |-> "raise"],
      [kind |-> "http", status |-> HttpNotFound, body |-> BadJson],
      [kind |-> "http", status |-> HttpOk, body |-> BadJson],
      [kind |-> "http", status |-> HttpOk, body |-> List(<<>>)],
      [kind |-> "http", status |-> HttpOk, body |-> List(live)] }

\* return self.get_sample_data()
ReturnSample ==
    /\ sampleCalls' = sampleCalls + 1
    /\ bulkResult' = get_sample_data
    /\ bulkPc' = "done"

\* lines 50-66: the /all request, up to the return or to the first region request
RequestAll(o) ==
    /\ bulkPc = "start"
    /\ bulkAllOutcome' = o
    /\ bulkRequests' = << <<"all">> >>
    /\ IF o.kind = "raise"
       THEN \* except requests.exceptions.RequestException
            ReturnSample /\ UNCHANGED <<all_countries, bulkRegionOutcomes>>
       ELSE IF o.status = HttpOk /\ o.body = BadJson
       THEN \* response.json() raises: a RequestException in requests 2.27 and
            \* later, a plain ValueError before, which the handler does not catch
            \/ ReturnSample /\ UNCHANGED <<all_countries, bulkRegionOutcomes>>
            \/ /\ bulkPc' = "raised"
               /\ UNCHANGED <<all_countries, bulkRegionOutcomes, bulkResult, sampleCalls>>
       ELSE IF o.status = HttpOk /\ Len(o.body.v) > 0
       THEN /\ bulkResult' = o.body.v
            /\ bulkPc' = "done"
            /\ UNCHANGED <<all_countries, bulkRegionOutcomes, sampleCalls>>
       ELSE \* return self.get_countries_by_regions()
            /\ bulkPc' = "regions"
            /\ all_countries' = <<>>
            /\ UNCHANGED <<bulkRegionOutcomes, bulkResult, sampleCalls>>

GetAllCountries ==
    /\ \E o \in BulkOutcomes(LiveAll) : RequestAll(o)
    /\ UNCHANGED <<fetchVars, genVars, chatVars, dashVars, compVars>>

\* all_countries.extend(region_data)
ExtendOverwrite(acc, data) == data

Extend(acc, data) == acc \o data

\* one turn of the loop body, lines 74-80
RegionStep(acc, o) ==
    IF o.kind = "http" /\ o.status = HttpOk /\ o.body /= BadJson
    THEN Extend(acc, o.body.v)
    ELSE acc

\* lines 73-87: one region request; after the last one the function returns
RequestRegion(o) ==
    /\ bulkPc = "regions"
    /\ Len(bulkRegionOutcomes) < Len(regions)
    /\ LET region == regions[Len(bulkRegionOutcomes) + 1]
           acc == RegionStep(all_countries, o)
       IN  /\ bulkRequests' = Append(bulkRequests, <<"region", region>>)
           /\ bulkRegionOutcomes' = Append(bulkRegionOutcomes, o)
           /\ all_countries' = acc
           /\ IF Len(bulkRegionOutcomes) + 1 < Len(regions)
              THEN UNCHANGED <<bulkPc, bulkResult, sampleCalls>>
              ELSE IF Len(acc) > 0
              THEN bulkPc' = "done" /\ bulkResult' = acc /\ UNCHANGED sampleCalls
              ELSE ReturnSample
    /\ UNCHANGED bulkAllOutcome

GetCountriesByRegions ==
    /\ Len(bulkRegionOutcomes) < Len(regions)
    /\ \E o \in BulkOutcomes(LiveRegion(regions[Len(bulkRegionOutcomes) + 1])) :
            RequestRegion(o)
    /\ UNCHANGED <<fetchVars, genVars, chatVars, dashVars, compVars>>

(***************************************************************************)
(* get_country_data of the chatbot and insight pages.                      *)
(***************************************************************************)
\* the dict literal raises when a nested access meets a value of the wrong type
NormalizeRaises(c) ==
    \/ c.name.t \notin {"missing", "dict"}          \* None.get(...)
    \/ c.capital.t = "None"                         \* None[0]
    \/ (c.capital.t = "list" /\ Len(c.capital.v) = 0)   \* [][0]
    \/ (Truthy(c.languages) /\ c.languages.t /= "dict")
    \/ (Truthy(c.currencies) /\ c.currencies.t /= "dict")

NameField(c, key) == ItemGet(DictGet(c, "name", Dict(<<>>)), key, None)

CapitalDefaultNone(c) == DictGet(c, "capital", List(<<None>>)).v[1]

CapitalOf(c) == DictGet(c, "capital", List(<<Str("Unknown")>>)).v[1]

LanguagesOf(c) ==
    List(Values(IF Truthy(c.languages) THEN c.languages ELSE Dict(<<>>)))

CurrenciesOf(c) ==
    List(Keys(IF Truthy(c.currencies) THEN c.currencies ELSE Dict(<<>>)))

Normalize(c) ==
    [name |-> NameField(c, "common"),
     official_name |-> NameField(c, "official"),
     capital |-> CapitalOf(c),
     region |-> DictGet(c, "region", Str("Unknown")),
     subregion |-> DictGet(c, "subregion", Str("Unknown")),
     population |-> DictGet(c, "population", Num(0)),
     area |-> DictGet(c, "area", Num(0)),
     languages |-> LanguagesOf(c),
     currencies |-> CurrenciesOf(c),
     flag |-> DictGet(c, "flag", Str(""))]

\* the guard on the name argument: `if not country_name: return None`
NameGuard(name) == name /= ""

\* `timeout=10` of the pages' requests.get calls
TimeoutSeconds == 10

\* a request to /name/{name} with the timeout argument it was given (None
\* when the call passes none, and then the call waits as long as the
\* service stays silent)
NameRequest(name, timeout) == <<"name", name, timeout>>

\* returns [ret, requests, raised]; the chatbot page names the last key
\* flag_emoji, the insight page flag
get_country_data(name, resp) ==
    IF ~NameGuard(name)
    THEN [ret |-> None, requests |-> <<>>, raised |-> FALSE]
    ELSE LET req == << NameRequest(name, Num(TimeoutSeconds)) >>
             absent == [ret |-> None, requests |-> req, raised |-> FALSE]
         IN  IF resp.kind = "raise" THEN absent
             ELSE IF resp.status /= HttpOk THEN absent
             ELSE IF resp.body = BadJson THEN absent
             ELSE IF Len(resp.body.v) = 0 THEN absent
             ELSE IF NormalizeRaises(resp.body.v[1]) THEN absent
             ELSE [ret |-> Normalize(resp.body.v[1]), requests |-> req, raised |-> FALSE]

(***************************************************************************)
(* CountryInsights.get_country_data: no guard on the name, no timeout on   *)
(* self.session.get, the first entry is returned as the service sent it.   *)
(***************************************************************************)
insights_get_country_data(name, resp) ==
    LET req == << NameRequest(name, None) >>
        absent == [ret |-> None, requests |-> req, raised |-> FALSE]
    IN  IF resp.kind = "raise" THEN absent
        ELSE IF resp.status /= HttpOk THEN absent
        ELSE IF resp.body = BadJson THEN absent
        ELSE IF Len(resp.body.v) = 0 THEN absent
        ELSE [ret |-> resp.body.v[1], requests |-> req, raised |-> FALSE]

(***************************************************************************)
(* The Gemini client and the wrappers around it.                           *)
(***************************************************************************)
\* lines 19-26: st.secrets["GEMINI_API_KEY"] raises when the key is absent,
\* and the except branch leaves the page without a usable model
ConfigureAlwaysReady(hasKey) == TRUE

ConfigureGemini(hasKey) == hasKey

\* model.generate_content(prompt) raises, or returns a response whose text
\* attribute is absent, is None, raises when read, or holds the text
TextRaises == [t |-> "raises"]
Texts == {"Paris is the capital.", " Paris is the capital. "}
LlmOutcomes ==
    {[kind |-> "raise"]}
    \cup {[kind |-> "response", text |-> x] : x \in {Missing, None, TextRaises}}
    \cup {[kind |-> "response", text |-> Str(x)] : x \in Texts}

\* str.strip() on the texts the service can send
Strip(text) ==
    CASE text = " Paris is the capital. " -> "Paris is the capital."
      [] OTHER -> text

AskUnavailable == "Gemini is not available because the API key is not configured."
AskEmpty == "Gemini returned an empty response. Try asking in a different way."
AskError == "Sorry, something went wrong while contacting the AI. Please try again in a moment."
InsightUnavailable == "Gemini is not available right now. Please check the API key configuration."
InsightEmpty == "I couldn't generate an insight. Try changing your inputs or trying again."
InsightError == "Sorry, something went wrong while generating the insight. Please try again."
ApiNotConfigured == "Gemini API not configured. Please check your API key."
TravelError == "Error generating travel guide: {e}"
ComparisonError == "Error generating comparison: {e}"

\* what a generation function hands back: the value returned, the number of
\* generate_content calls it made, whether an exception left it
Returned(value, calls) == [ret |-> value, calls |-> calls, raised |-> FALSE]
Escaped(calls) == [ret |-> None, calls |-> calls, raised |-> TRUE]

\* `except Exception as e: ... return <message>`
CaughtReraised(message) == Escaped(1)

Caught(message) == Returned(Str(message), 1)

\* try block of ask_gemini and generate_country_insight
GenerateChecked(outcome, emptyMessage, errorMessage) ==
    IF outcome.kind = "raise" THEN Caught(errorMessage)
    ELSE IF outcome.text = TextRaises THEN Caught(errorMessage)
    ELSE IF outcome.text = Missing \/ outcome.text = None
    THEN Returned(Str(emptyMessage), 1)
    ELSE Returned(Str(Strip(outcome.text.v)), 1)

\* try block of generate_travel_guide and generate_country_comparison:
\* `return response.text`
GenerateUnchecked(outcome, errorMessage) ==
    IF outcome.kind = "raise" THEN Caught(errorMessage)
    ELSE IF outcome.text = TextRaises \/ outcome.text = Missing THEN Caught(errorMessage)
    ELSE Returned(outcome.text, 1)

\* Country_Chatbot.py ask_gemini
ask_gemini(ready, outcome) ==
    IF ~ready THEN Returned(Str(AskUnavailable), 0)
    ELSE GenerateChecked(outcome, AskEmpty, AskError)

(***************************************************************************)
(* Prompts are kept as their lines: the label of the line and the values   *)
(* interpolated into it.                                                   *)
(***************************************************************************)
Line(label, values) == [k |-> label, v |-> values]

\* f"{x:,}": the number with thousands separators; raises on None
Grouped(x) == [t |-> "grouped", v |-> x.v]

\* ', '.join(items)
Joined(items) == [t |-> "joined", v |-> items.v]

JoinedOrUnknown(items) == IF Len(items.v) > 0 THEN Joined(items) ELSE Str("Unknown")

\* Country_Insight.py format_country_block
FormatBlockRaises(c) == c /= None /\ (c.population = None \/ c.area = None)

format_country_block(c) ==
    IF c = None THEN << Line("No data available.", <<>>) >>
    ELSE << Line("Name: {} (official: {})", <<c.name, c.official_name>>),
            Line("Capital: {}", <<c.capital>>),
            Line("Region: {} | Subregion: {}", <<c.region, c.subregion>>),
            Line("Population: {:,}", <<Grouped(c.population)>>),
            Line("Area: {:,} km2", <<Grouped(c.area)>>),
            Line("Languages: {}", <<JoinedOrUnknown(c.languages)>>),
            Line("Currencies: {}", <<JoinedOrUnknown(c.currencies)>>),
            Line("Flag: {}", <<c.flag>>) >>

InsightTypes == {"Travel-style overview", "Economic & demographic snapshot"}
DetailLevels == 1..3
ExtraNotes == {"", "Focus on safety and tourism."}

detail_text(level) ==
    CASE level = 1 -> "very short, 2-3 sentence overview"
      [] level = 2 -> "medium-length explanation, around one short paragraph"
      [] OTHER -> "more detailed, 2-3 short paragraphs with key facts and commentary"

InsightPrompt(primary, secondary, insight_type, detail_level, extra_note) ==
    << Line("system_instructions", <<>>),
       Line("Insight type requested: {}", <<Str(insight_type)>>),
       Line("Desired detail level: {}", <<Str(detail_text(detail_level))>>),
       Line("Primary country data:", <<>>) >>
    \o format_country_block(primary)
    \o << Line("Comparison country data:", <<>>) >>
    \o (IF secondary /= None THEN format_country_block(secondary)
        ELSE << Line("No comparison country provided.", <<>>) >>)
    \o << Line("Additional user note or focus:", <<>>),
          Line("{}", <<Str(IF extra_note /= "" THEN extra_note ELSE "None.")>>),
          Line("Now write the requested insight", <<>>) >>

\* Country_Insight.py generate_country_insight: returns the result and the prompt
generate_country_insight(ready, primary, secondary, insight_type, detail_level, extra_note, outcome) ==
    IF ~ready THEN [r |-> Returned(Str(InsightUnavailable), 0), prompt |-> <<>>]
    ELSE IF FormatBlockRaises(primary) \/ FormatBlockRaises(secondary)
    THEN [r |-> Escaped(0), prompt |-> <<>>]
    ELSE [r |-> GenerateChecked(outcome, InsightEmpty, InsightError),
          prompt |-> InsightPrompt(primary, secondary, insight_type, detail_level,
                                   extra_note)]

\* the one-line expressions of Country_Insights.py over an entry as the service sent it
RawName(c) == ItemGet(DictGet(c, "name", Dict(<<>>)), "common", Str("Unknown"))
RawCapital(c) == IF Truthy(c.capital) THEN c.capital.v[1] ELSE Str("Unknown")
RawLanguages(c) ==
    IF Truthy(c.languages) THEN List(Values(c.languages)) ELSE List(<<Str("Unknown")>>)

\* the accesses made before the try block that raise
RawRaises(c) ==
    \/ c.name.t \notin {"missing", "dict"}
    \/ c.population = None
    \/ c.area = None

TravelerTypes == {"Family", "Luxury"}
Durations == {3, 7}

TravelPrompt(c, traveler_type, duration) ==
    << Line("Create a detailed {}-day travel guide for {} specifically for {}.",
            <<Num(duration), RawName(c), Str(traveler_type)>>),
       Line("Capital: {}", <<RawCapital(c)>>),
       Line("Population: {:,}", <<Grouped(DictGet(c, "population", Num(0)))>>),
       Line("Area: {:,} km2", <<Grouped(DictGet(c, "area", Num(0)))>>),
       Line("Region: {}", <<DictGet(c, "region", Str("Unknown"))>>),
       Line("Languages: {}", <<Joined(RawLanguages(c))>>),
       Line("Please include:", <<Num(duration), Str(traveler_type)>>) >>

\* CountryInsights.generate_travel_guide
generate_travel_guide(available, c, traveler_type, duration, outcome) ==
    IF ~available THEN [r |-> Returned(Str(ApiNotConfigured), 0), prompt |-> <<>>]
    ELSE IF RawRaises(c) THEN [r |-> Escaped(0), prompt |-> <<>>]
    ELSE [r |-> GenerateUnchecked(outcome, TravelError),
          prompt |-> TravelPrompt(c, traveler_type, duration)]

Aspects == {"Culture and Lifestyle", "Economic Development"}

ComparisonBlock(c) ==
    << Line("{}:", <<RawName(c)>>),
       Line("Population: {:,}", <<Grouped(DictGet(c, "population", Num(0)))>>),
       Line("Area: {:,} km2", <<Grouped(DictGet(c, "area", Num(0)))>>),
       Line("Region: {}", <<DictGet(c, "region", Str("Unknown"))>>),
       Line("Capital: {}", <<RawCapital(c)>>),
       Line("Languages: {}", <<RawLanguages(c)>>) >>

ComparisonPrompt(c1, c2, aspect) ==
    << Line("Compare {} and {} focusing on {}.", <<RawName(c1), RawName(c2), Str(aspect)>>) >>
    \o ComparisonBlock(c1) \o ComparisonBlock(c2)
    \o << Line("Provide a detailed comparison covering:", <<Str(aspect)>>) >>

\* CountryInsights.generate_country_comparison
generate_country_comparison(available, c1, c2, aspect, outcome) ==
    IF ~available THEN [r |-> Returned(Str(ApiNotConfigured), 0), prompt |-> <<>>]
    ELSE IF RawRaises(c1) \/ RawRaises(c2) THEN [r |-> Escaped(0), prompt |-> <<>>]
    ELSE [r |-> GenerateUnchecked(outcome, ComparisonError),
          prompt |-> ComparisonPrompt(c1, c2, aspect)]

(***************************************************************************)
(* The handlers that call the generation functions.                        *)
(***************************************************************************)
FranceNullPopulation == [France EXCEPT !.population = None]
FranceNoName == [France EXCEPT !.name = Missing]
FranceNullName == [France EXCEPT !.name = None]
EmptyEntry ==
    [name |-> Missing, capital |-> Missing, region |-> Missing, subregion |-> Missing,
     population |-> Missing, area |-> Missing, languages |-> Missing,
     currencies |-> Missing, flag |-> Missing]

GenResponses ==
    { [kind |-> "raise"],
      [kind |-> "http", status |-> HttpNotFound, body |-> List(<<>>)] }
    \cup { [kind |-> "http", status |-> HttpOk, body |-> List(<<e>>)] :
             e \in {France, FranceNullPopulation, FranceNoName, FranceNullName, EmptyEntry} }

GenNames == {"", "France"}

\* `if country_data:` on an entry as the service sent it
RawTruthy(c) == c /= None /\ \E f \in DOMAIN c : c[f] /= Missing

\* f"{...:,}" on the population and area of a record shown by the page
NumbersRaise(c) == c /= None /\ (c.population = None \/ c.area = None)

\* the handler ended: fn is the generation function it called, g what that returned
HandlerDone(handler, fn, fetched, shown, g, prompt, raisedAfter) ==
    /\ genHandler = "none"
    /\ genHandler' = handler
    /\ genFn' = fn
    /\ genFetched' = fetched
    /\ genShown' = shown
    /\ genPrompt' = prompt
    /\ genResult' = g.ret
    /\ genCalls' = g.calls
    /\ genRaised' = (g.raised \/ raisedAfter)
    /\ UNCHANGED <<genInputs, fetchVars, bulkVars, chatVars, dashVars, compVars>>

\* the generation function called although the record is missing
GenerationAnyway == Returned(None, 1)

\* the branches that show a message and call no generation function
NoGeneration == Returned(None, 0)

\* a call of ask_gemini(prompt) on the chatbot page
AskGemini ==
    HandlerDone("ask_gemini", "ask_gemini", <<>>, <<>>,
                ask_gemini(ConfigureGemini(credential), genOutcome), <<>>, FALSE)

\* Country_Insight.py: lines 180-183, the data tab, and the button of lines 236-249
InsightButton ==
    \E compare_mode \in BOOLEAN, insight_type \in InsightTypes,
       detail_level \in DetailLevels, extra_note \in ExtraNotes :
        LET ready == ConfigureGemini(credential)
            primary_data == get_country_data(genName1, genResp1).ret
            secondary_data ==
                IF compare_mode /\ genName2 /= ""
                THEN get_country_data(genName2, genResp2).ret
                ELSE None
            fetched == <<primary_data, secondary_data>>
            g == generate_country_insight(ready, primary_data, secondary_data,
                                          insight_type, detail_level, extra_note,
                                          genOutcome)
        IN  IF NumbersRaise(primary_data) \/ NumbersRaise(secondary_data)
            THEN \* the data tab raises before the button is reached
                 HandlerDone("insight_button", "none", fetched, <<>>, Escaped(0), <<>>, FALSE)
            ELSE IF primary_data = None
            THEN HandlerDone("insight_button", "none", fetched,
                             <<"Please fix the primary country name before generating an insight.">>,
                             NoGeneration, <<>>, FALSE)
            ELSE HandlerDone("insight_button", "generate_country_insight", fetched, <<>>,
                             g.r, g.prompt, FALSE)

\* Country_Insights.py lines 200-223
TravelGuideButton ==
    \E traveler_type \in TravelerTypes, duration \in Durations :
        LET available == ConfigureGemini(credential)
            travel_country == insights_get_country_data(genName1, genResp1).ret
            g == generate_travel_guide(available, travel_country, traveler_type, duration,
                                       genOutcome)
        IN  IF genName1 = ""
            THEN HandlerDone("travel_button", "none", <<>>,
                             <<"Please enter a country name.">>, NoGeneration, <<>>, FALSE)
            ELSE IF ~RawTruthy(travel_country)
            THEN HandlerDone("travel_button", "none", <<travel_country>>,
                             <<"Could not find data for", genName1>>, NoGeneration, <<>>,
                             FALSE)
            ELSE HandlerDone("travel_button", "generate_travel_guide", <<travel_country>>,
                             <<>>, g.r, g.prompt, NumbersRaise(travel_country))

\* Country_Insights.py lines 254-301
ComparisonButton ==
    \E aspect \in Aspects :
        LET available == ConfigureGemini(credential)
            country1_data == insights_get_country_data(genName1, genResp1).ret
            country2_data == insights_get_country_data(genName2, genResp2).ret
            fetched == <<country1_data, country2_data>>
            g == generate_country_comparison(available, country1_data, country2_data,
                                             aspect, genOutcome)
            missing == (IF RawTruthy(country1_data) THEN <<>> ELSE <<genName1>>)
                       \o (IF RawTruthy(country2_data) THEN <<>> ELSE <<genName2>>)
        IN  IF genName1 = "" \/ genName2 = ""
            THEN HandlerDone("comparison_button", "none", <<>>,
                             <<"Please enter both country names.">>, NoGeneration, <<>>,
                             FALSE)
            ELSE IF RawTruthy(country1_data) /\ RawTruthy(country2_data)
            THEN HandlerDone("comparison_button", "generate_country_comparison", fetched,
                             <<>>, g.r, g.prompt,
                             NumbersRaise(country1_data) \/ NumbersRaise(country2_data))
            ELSE HandlerDone("comparison_button", "none", fetched,
                             <<"Could not find data for:">> \o missing, NoGeneration, <<>>,
                             FALSE)

(***************************************************************************)
(* The chat page: Country_Chatbot.py from the session state to the end.    *)
(***************************************************************************)
MaxSubmissions == 3

ChatMessages == {"What is the capital?", "And the population?"}
ChatCountries == {"", "France"}
ChatResponses ==
    { [kind |-> "raise"],
      [kind |-> "http", status |-> HttpOk, body |-> List(<<France>>)] }

\* msg['role'].upper()
Upper(role) == IF role = "user" THEN "USER" ELSE "ASSISTANT"

\* the turns written newest first
HistoryLinesNewestFirst(chat_history) ==
    [i \in 1..Len(chat_history) |->
        Line("{ROLE}: {content}",
             <<Str(Upper(chat_history[Len(chat_history) + 1 - i].role)),
               Str(chat_history[Len(chat_history) + 1 - i].content)>>)]

\* lines 71-73: history_str, one line per message
HistoryLines(chat_history) ==
    [i \in 1..Len(chat_history) |->
        Line("{ROLE}: {content}",
             <<Str(Upper(chat_history[i].role)), Str(chat_history[i].content)>>)]

\* the country section left out when there is no record
CountryInfoSilent(c) ==
    IF c = None THEN <<>>
    ELSE << Line("Country data from REST Countries API:", <<>>),
            Line("- Name: {}", <<c.name>>) >>

CountryInfo(c) ==
    IF c = None THEN << Line("No country data available.", <<>>) >>
    ELSE << Line("Country data from REST Countries API:", <<>>),
            Line("- Name: {}", <<c.name>>),
            Line("- Official Name: {}", <<c.official_name>>),
            Line("- Capital: {}", <<c.capital>>),
            Line("- Region: {}", <<c.region>>),
            Line("- Subregion: {}", <<c.subregion>>),
            Line("- Population: {}", <<c.population>>),
            Line("- Area: {} km2", <<c.area>>),
            Line("- Languages: {}", <<Joined(c.languages)>>),
            Line("- Currencies: {}", <<Joined(c.currencies)>>),
            Line("- Flag: {}", <<c.flag>>) >>

\* Country_Chatbot.py build_prompt
build_prompt(chat_history, c, user_message) ==
    << Line("system_instructions", <<>>),
       Line("Conversation so far:", <<>>) >>
    \o HistoryLines(chat_history)
    \o << Line("Structured REST Countries API info:", <<>>) >>
    \o CountryInfo(c)
    \o << Line("User's latest question:", <<>>),
          Line("{}", <<Str(user_message)>>),
          Line("Now respond as the assistant.", <<>>) >>

\* lines 139-140: the history is created only when the session has none
EnsureHistoryReset(ss) == [k \in {"chat_history"} |-> <<>>]

EnsureHistory(ss) ==
    IF "chat_history" \in DOMAIN ss THEN ss ELSE [k \in {"chat_history"} |-> <<>>]

chat_history == session_state["chat_history"]

\* the prompt composed and the history saved without the new user turn
SaveUserSkipped(history, user_message) == history

\* lines 164-167
SaveUser(history, user_message) ==
    Append(history, [role |-> "user", content |-> user_message])

\* lines 180-183
SaveAssistantUnlessFailed(history, reply) ==
    IF reply \in {AskUnavailable, AskEmpty, AskError} THEN history
    ELSE Append(history, [role |-> "assistant", content |-> reply])

SaveAssistant(history, reply) ==
    Append(history, [role |-> "assistant", content |-> reply])

\* the script is one thread of straight-line code: st.chat_input is read at
\* line 160, which a run reaches only when it is not inside lines 162-187
SubmitGuardAlways == TRUE

SubmitGuard == chatPc = "idle"

\* lines 19-26 and 139-152, the top of every script run
ScriptTop(selected_country, resp) ==
    /\ GEMINI_READY' = ConfigureGemini(credential)
    /\ country_data' = get_country_data(selected_country, resp).ret

\* the first run of the page in a session
LoadPage ==
    /\ session_state = << >>
    /\ \E selected_country \in ChatCountries, resp \in ChatResponses :
            ScriptTop(selected_country, resp)
    /\ session_state' = EnsureHistory(session_state)
    /\ UNCHANGED <<chatPc, pending, submissions, chatCalls>>
    /\ UNCHANGED <<fetchVars, bulkVars, genVars, dashVars, compVars>>

\* a run with no chat message (a sidebar change): user_message is None
Rerun ==
    /\ session_state /= << >>
    /\ chatPc = "idle"
    /\ \E selected_country \in ChatCountries, resp \in ChatResponses :
            ScriptTop(selected_country, resp)
    /\ session_state' = EnsureHistory(session_state)
    /\ UNCHANGED <<chatPc, pending, submissions, chatCalls>>
    /\ UNCHANGED <<fetchVars, bulkVars, genVars, dashVars, compVars>>

\* a run with a chat message, lines 160-177, up to the call of generate_content
Submit ==
    /\ session_state /= << >>
    /\ SubmitGuard
    /\ submissions < MaxSubmissions
    /\ \E selected_country \in ChatCountries, resp \in ChatResponses,
          user_message \in ChatMessages :
            /\ ScriptTop(selected_country, resp)
            /\ LET history == SaveUser(EnsureHistory(session_state)["chat_history"],
                                       user_message)
               IN  /\ session_state' = [EnsureHistory(session_state)
                                            EXCEPT !["chat_history"] = history]
                   /\ pending' = Append(pending,
                                        build_prompt(history, country_data', user_message))
    /\ chatPc' = "generating"
    /\ submissions' = submissions + 1
    /\ UNCHANGED chatCalls
    /\ UNCHANGED <<fetchVars, bulkVars, genVars, dashVars, compVars>>

\* ask_gemini returns and lines 180-187 run
Respond ==
    /\ chatPc = "generating"
    /\ Len(pending) > 0
    /\ \E outcome \in LlmOutcomes :
        LET r == ask_gemini(GEMINI_READY, outcome)
        IN  /\ session_state' = [session_state EXCEPT
                    !["chat_history"] = SaveAssistant(@, r.ret.v)]
            /\ chatCalls' = chatCalls + r.calls
    /\ pending' = Tail(pending)
    /\ chatPc' = IF Len(pending) > 1 THEN "generating" ELSE "idle"
    /\ UNCHANGED <<GEMINI_READY, country_data, submissions>>
    /\ UNCHANGED <<fetchVars, bulkVars, genVars, dashVars, compVars>>

FetchFns == {"chatbot", "insight", "insights"}

CallFetch(fn) ==
    /\ fetchFn = "none"
    /\ LET r == IF fn = "insights"
                THEN insights_get_country_data(fetchName, fetchResp)
                ELSE get_country_data(fetchName, fetchResp)
       IN  /\ fetchFn' = fn
           /\ fetchResult' = r.ret
           /\ fetchRequests' = r.requests
           /\ fetchRaised' = r.raised
    /\ UNCHANGED <<fetchName, fetchResp>>
    /\ UNCHANGED <<bulkVars, genVars, chatVars, dashVars, compVars>>

ChatbotGetCountryData == CallFetch("chatbot")
InsightGetCountryData == CallFetch("insight")
InsightsGetCountryData == CallFetch("insights")


(***************************************************************************)
(* The dashboard: main of Country_Analysis.py, lines 413-455.              *)
(***************************************************************************)
\* country.get(key, default)
CountryGet(c, key, default) == IF key \in DOMAIN c THEN c[key] ELSE default

\* the same guard with `population <= min_population`
KeepStrict(country, region_filter, minimum) ==
    LET population == CountryGet(country, "population", 0)
        region == CountryGet(country, "region", "")
    IN  /\ ~(region_filter /= "All" /\ region /= region_filter)
        /\ ~(population <= minimum)

\* lines 425-432: a country passes when neither `continue` is taken
Keep(country, region_filter, minimum) ==
    LET population == CountryGet(country, "population", 0)
        region == CountryGet(country, "region", "")
    IN  /\ ~(region_filter /= "All" /\ region /= region_filter)
        /\ ~(population < minimum)

\* lines 423-434: the loop appends the passing countries to a new list
FilterLoop(countries, region_filter, minimum) ==
    SelectSeq(countries, LAMBDA c : Keep(c, region_filter, minimum))

\* the country names of the model in the order Python's str comparison
\* gives them
NamesInOrder ==
    <<"", "A", "Australia", "B", "Brazil", "C", "Canada", "China", "D", "Fiji",
      "France", "Germany", "India", "Japan", "Kenya", "Nepal", "Nigeria", "Peru",
      "Qatar", "Spain", "United States">>

NameIndex(name) == CHOOSE i \in 1..Len(NamesInOrder) : NamesInOrder[i] = name

\* the key= lambdas of lines 438, 440, 442
SortKey(country, criterion) ==
    CASE criterion = "Population" -> CountryGet(country, "population", 0)
      [] criterion = "Area" -> CountryGet(country, "area", 0)
      [] OTHER -> NameIndex(CountryGet(country, "name", ""))

\* TRUE when a must come before b: the larger key first under reverse=True,
\* the smaller key first otherwise
Precedes(a, b, criterion, reverse) ==
    IF reverse
    THEN SortKey(a, criterion) > SortKey(b, criterion)
    ELSE SortKey(a, criterion) < SortKey(b, criterion)

\* x is placed behind every element it does not strictly precede
InsertStable(sorted, x, criterion, reverse) ==
    LET after == {i \in 1..Len(sorted) : Precedes(x, sorted[i], criterion, reverse)}
        pos == IF after = {} THEN Len(sorted) + 1
               ELSE CHOOSE i \in after : \A j \in after : i <= j
    IN  SubSeq(sorted, 1, pos - 1) \o <<x>> \o SubSeq(sorted, pos, Len(sorted))

\* list.sort(key=..., reverse=...): stable, equal keys keep their order also
\* under reverse=True
RECURSIVE SortStable(_, _, _)
SortStable(list, criterion, reverse) ==
    IF Len(list) = 0 THEN <<>>
    ELSE InsertStable(SortStable(SubSeq(list, 1, Len(list) - 1), criterion, reverse),
                      list[Len(list)], criterion, reverse)

Reverse(list) == [i \in 1..Len(list) |-> list[Len(list) + 1 - i]]

\* an ascending sort reversed afterwards for the descending criteria
SortCountriesReversing(list, criterion) ==
    IF criterion \in {"Population", "Area"}
    THEN Reverse(SortStable(list, criterion, FALSE))
    ELSE SortStable(list, "Name", FALSE)

\* lines 437-442
SortCountries(list, criterion) ==
    IF criterion = "Population" THEN SortStable(list, "Population", TRUE)
    ELSE IF criterion = "Area" THEN SortStable(list, "Area", TRUE)
    ELSE SortStable(list, "Name", FALSE)

\* list[:limit] without the cut
NoSlice(list, limit) == list

\* line 445: filtered_countries[:country_limit]
Slice(list, limit) ==
    SubSeq(list, 1, IF limit < Len(list) THEN limit ELSE Len(list))

\* sum(country.get(key, 0) for country in list)
RECURSIVE SumOf(_, _)
SumOf(list, key) ==
    IF Len(list) = 0 THEN Big(0)
    ELSE BigAdd(SumOf(SubSeq(list, 1, Len(list) - 1), key),
                Big(CountryGet(list[Len(list)], key, 0)))

\* total / count without the guard on the count
AverageUnguarded(total, count) == Ratio(total, count)

\* line 454: total_population / total_countries if total_countries > 0 else 0
Average(total, count) ==
    IF count > 0 THEN Ratio(total, count) ELSE Ratio(Big(0), 1)

\* a sort applied to the fetched list itself
SortedInPlace(fetched, result) == result

\* the loop appends to a new list, and the sort and the slice act on that
\* list: the fetched list is read and never written
LeftAlone(fetched, result) == fetched

\* main from the fetch on: the early return of lines 416-420, then filter,
\* sort, slice and the four figures of the overview
Main ==
    /\ dashPc = "start"
    /\ IF Len(countries_data) = 0
       THEN /\ dashPc' = "empty"
            /\ UNCHANGED <<countries_data, kept, ordered, filtered_countries,
                           total_countries, total_population, avg_population,
                           total_area>>
       ELSE LET afterLoop == FilterLoop(countries_data, selected_region, min_population)
                afterSort == SortCountries(afterLoop, sort_by)
                afterSlice == Slice(afterSort, country_limit)
            IN  /\ dashPc' = "done"
                /\ kept' = afterLoop
                /\ ordered' = afterSort
                /\ filtered_countries' = afterSlice
                /\ countries_data' = LeftAlone(countries_data, afterSort)
                /\ total_countries' = Len(afterSlice)
                /\ total_population' = SumOf(afterSlice, "population")
                /\ avg_population' = Average(SumOf(afterSlice, "population"),
                                             Len(afterSlice))
                /\ total_area' = SumOf(afterSlice, "area")
    /\ UNCHANGED dashInputs
    /\ UNCHANGED <<fetchVars, bulkVars, genVars, chatVars, compVars>>

\* what the sidebar and the fetch can hand to main
MaxCountries == 3

DashPool ==
    { [name |-> "B", region |-> "Asia", population |-> 5 * Million, area |-> 7],
      [name |-> "A", region |-> "Europe", population |-> 5 * Million, area |-> 9],
      [name |-> "C", region |-> "Asia", population |-> 10 * Million, area |-> 7],
      [name |-> "D", region |-> "Europe"] }

DashLists ==
    { list \in UNION { [1..n -> DashPool] : n \in 1..MaxCountries } :
        \A i, j \in DOMAIN list : i /= j => list[i] /= list[j] }
    \cup {get_sample_data, LiveAll}

RegionOptions == {"All", "Africa", "Americas", "Asia", "Europe", "Oceania"}
MinPopulations == {0, Million, 5 * Million, 10 * Million, 30 * Million}
CountryLimits == {5, 10}
SortOptions == {"Population", "Area", "Name"}

(***************************************************************************)
(* The prompt composers, each called on what the fetch of its page returns.*)
(***************************************************************************)
CompEntries == {France, FranceNullPopulation, FranceNoName, FranceNullName, EmptyEntry}

CompHistories ==
    { <<>>,
      << [role |-> "user", content |-> "What is the capital?"] >>,
      << [role |-> "user", content |-> "What is the capital?"],
         [role |-> "assistant", content |-> "Paris."],
         [role |-> "user", content |-> "And the population?"] >> }

\* what get_country_data of the chatbot and insight pages returns for an
\* entry of the service: the normalized record, or None
Fetched(entry) ==
    IF entry = None THEN None
    ELSE IF NormalizeRaises(entry) THEN None
    ELSE Normalize(entry)

\* how often one composer is called with the same arguments
MaxCompositions == 2

\* a composer that appends a turn to the transcript it was handed
TurnAppended(arguments) ==
    <<arguments[1], arguments[2],
      Append(arguments[3], [role |-> "assistant", content |-> "Paris."])>>

\* the composers read the transcript and the records and interpolate them
\* into an f-string: no assignment to, and no mutating call on, an argument
ReadOnly(arguments) == arguments

\* a composer ended: with the prompt, or by raising; a further call is one
\* with the same arguments (the page rerun with its widgets untouched)
Composed(fn, options, raises, prompt) ==
    /\ compCalls < MaxCompositions
    /\ compCalls = 0 \/ (compFn = fn /\ compOptions = options)
    /\ compFn' = fn
    /\ compOptions' = options
    /\ compCalls' = compCalls + 1
    /\ compRaised' = raises
    /\ compPrompt' = IF raises THEN <<>> ELSE prompt
    /\ LET after == ReadOnly(<<compEntry1, compEntry2, compHistory>>)
       IN  /\ compEntry1' = after[1]
           /\ compEntry2' = after[2]
           /\ compHistory' = after[3]
    /\ UNCHANGED <<fetchVars, bulkVars, genVars, chatVars, dashVars>>

\* Country_Chatbot.py line 170: build_prompt(chat_history, country_data, user_message)
ComposeChat ==
    /\ compHistory /= <<>>
    /\ LET user_message == compHistory[Len(compHistory)].content
       IN  Composed("build_prompt", [fn |-> "build_prompt", user_message |-> user_message],
                    FALSE,
                    build_prompt(compHistory, Fetched(compEntry1), user_message))

\* Country_Insight.py lines 236-249: the prompt of generate_country_insight,
\* called when the primary country was found
ComposeInsight ==
    \E insight_type \in InsightTypes, detail_level \in DetailLevels,
       extra_note \in ExtraNotes :
        LET primary == Fetched(compEntry1)
            secondary == Fetched(compEntry2)
        IN  /\ primary /= None
            /\ Composed("generate_country_insight",
                        [fn |-> "generate_country_insight", insight_type |-> insight_type,
                         detail_level |-> detail_level, extra_note |-> extra_note],
                        FormatBlockRaises(primary) \/ FormatBlockRaises(secondary),
                        InsightPrompt(primary, secondary, insight_type, detail_level,
                                      extra_note))

\* Country_Insights.py lines 200-223: the prompt of generate_travel_guide
ComposeTravelGuide ==
    \E traveler_type \in TravelerTypes, duration \in Durations :
        /\ RawTruthy(compEntry1)
        /\ Composed("generate_travel_guide",
                    [fn |-> "generate_travel_guide", traveler_type |-> traveler_type,
                     duration |-> duration],
                    RawRaises(compEntry1),
                    TravelPrompt(compEntry1, traveler_type, duration))

\* Country_Insights.py lines 254-301: the prompt of generate_country_comparison
ComposeComparison ==
    \E aspect \in Aspects :
        /\ RawTruthy(compEntry1)
        /\ RawTruthy(compEntry2)
        /\ Composed("generate_country_comparison",
                    [fn |-> "generate_country_comparison", aspect |-> aspect],
                    RawRaises(compEntry1) \/ RawRaises(compEntry2),
                    ComparisonPrompt(compEntry1, compEntry2, aspect))

(***************************************************************************)
(* Specifications, one per page.                                           *)
(***************************************************************************)
InitFetch ==
    /\ fetchName \in Names
    /\ fetchResp \in Responses
    /\ FetchIdle
    /\ BulkIdle
    /\ GenInputsFixed /\ GenIdle
    /\ ChatIdle
    /\ DashIdle
    /\ CompInputsFixed /\ CompIdle

NextFetch ==
    \/ ChatbotGetCountryData
    \/ InsightGetCountryData
    \/ InsightsGetCountryData

SpecFetch == InitFetch /\ [][NextFetch]_vars

InitBulk ==
    /\ BulkIdle
    /\ fetchName = ""
    /\ fetchResp = [kind |-> "raise"]
    /\ FetchIdle
    /\ GenInputsFixed /\ GenIdle
    /\ ChatIdle
    /\ DashIdle
    /\ CompInputsFixed /\ CompIdle

NextBulk ==
    \/ GetAllCountries
    \/ GetCountriesByRegions

SpecBulk == InitBulk /\ [][NextBulk]_vars

InitGen ==
    /\ credential \in BOOLEAN
    /\ genName1 \in GenNames
    /\ genName2 \in GenNames
    /\ genResp1 \in GenResponses
    /\ genResp2 \in GenResponses
    /\ genOutcome \in LlmOutcomes
    /\ GenIdle
    /\ fetchName = ""
    /\ fetchResp = [kind |-> "raise"]
    /\ FetchIdle
    /\ BulkIdle
    /\ ChatIdle
    /\ DashIdle
    /\ CompInputsFixed /\ CompIdle

NextGen ==
    \/ AskGemini
    \/ InsightButton
    \/ TravelGuideButton
    \/ ComparisonButton

SpecGen == InitGen /\ [][NextGen]_vars

InitChat ==
    /\ ChatIdle
    /\ credential \in BOOLEAN
    /\ genName1 = ""
    /\ genName2 = ""
    /\ genResp1 = [kind |-> "raise"]
    /\ genResp2 = [kind |-> "raise"]
    /\ genOutcome = [kind |-> "raise"]
    /\ GenIdle
    /\ fetchName = ""
    /\ fetchResp = [kind |-> "raise"]
    /\ FetchIdle
    /\ BulkIdle
    /\ DashIdle
    /\ CompInputsFixed /\ CompIdle

NextChat ==
    \/ LoadPage
    \/ Rerun
    \/ Submit
    \/ Respond

SpecChat == InitChat /\ [][NextChat]_vars

InitDash ==
    /\ countries_data \in DashLists
    /\ selected_region \in RegionOptions
    /\ min_population \in MinPopulations
    /\ country_limit \in CountryLimits
    /\ sort_by \in SortOptions
    /\ DashStart
    /\ fetchName = ""
    /\ fetchResp = [kind |-> "raise"]
    /\ FetchIdle
    /\ BulkIdle
    /\ GenInputsFixed /\ GenIdle
    /\ ChatIdle
    /\ CompInputsFixed /\ CompIdle

NextDash == Main

SpecDash == InitDash /\ [][NextDash]_vars

InitCompose ==
    /\ compEntry1 \in CompEntries \cup {None}
    /\ compEntry2 \in CompEntries \cup {None}
    /\ compHistory \in CompHistories
    /\ CompIdle
    /\ fetchName = ""
    /\ fetchResp = [kind |-> "raise"]
    /\ FetchIdle
    /\ BulkIdle
    /\ GenInputsFixed /\ GenIdle
    /\ ChatIdle
    /\ DashIdle

NextCompose ==
    \/ ComposeChat
    \/ ComposeInsight
    \/ ComposeTravelGuide
    \/ ComposeComparison

SpecCompose == InitCompose /\ [][NextCompose]_vars

(***************************************************************************)
(* Properties of the bulk fetch.                                           *)
(***************************************************************************)
RegionRequested(region) ==
    \E i \in 1..Len(bulkRequests) : bulkRequests[i] = <<"region", region>>

\* the /all request failed: it raised, or answered non-200, or an empty array
AllRequestFailed ==
    \/ bulkAllOutcome.kind = "raise"
    \/ /\ bulkAllOutcome.kind = "http"
       /\ \/ bulkAllOutcome.status /= HttpOk
          \/ bulkAllOutcome.body = List(<<>>)

SampleReturned == bulkPc = "done" /\ sampleCalls > 0

\* C1: whenever the /all request fails, each of the five regions has been
\* requested by the time the sample set is returned.
C1_RegionsBeforeSample ==
    (SampleReturned /\ AllRequestFailed) =>
        \A i \in 1..Len(regions) : RegionRequested(regions[i])

RegionOk(o) == o.kind = "http" /\ o.status = HttpOk

RegionGaveRecords(o) == RegionOk(o) /\ o.body /= BadJson /\ Len(o.body.v) > 0

RECURSIVE SuccessfulRecords(_)
\* the records of the regions that answered 200 with a JSON array, in order
SuccessfulRecords(outs) ==
    IF Len(outs) = 0 THEN <<>>
    ELSE LET o == outs[Len(outs)]
             before == SuccessfulRecords(SubSeq(outs, 1, Len(outs) - 1))
         IN  IF RegionOk(o) /\ o.body /= BadJson THEN before \o o.body.v ELSE before

RegionsReturned == bulkPc = "done" /\ Len(bulkRegionOutcomes) = Len(regions)

\* C2 as stated: one region answering status 200 is enough for the result
\* to be the concatenation of the regions' records and not the sample set.
C2_Status200NoSample ==
    (RegionsReturned /\ \E i \in 1..Len(bulkRegionOutcomes) : RegionOk(bulkRegionOutcomes[i])) =>
        /\ sampleCalls = 0
        /\ bulkResult = SuccessfulRecords(bulkRegionOutcomes)

\* C2 amended: one region answering status 200 with a non-empty array of
\* records is enough for the result to be the concatenation, in region
\* order, of the arrays of the regions that answered 200, and not the sample.
C2_RecordsNoSample ==
    (RegionsReturned
        /\ \E i \in 1..Len(bulkRegionOutcomes) : RegionGaveRecords(bulkRegionOutcomes[i])) =>
        /\ sampleCalls = 0
        /\ bulkResult = SuccessfulRecords(bulkRegionOutcomes)

C2_Witness ==
    /\ RegionsReturned
    /\ bulkRegionOutcomes[1].kind = "raise"
    /\ RegionGaveRecords(bulkRegionOutcomes[2])
    /\ RegionGaveRecords(bulkRegionOutcomes[3])
    /\ bulkRegionOutcomes[4].kind = "http" /\ bulkRegionOutcomes[4].status = HttpNotFound
    /\ bulkRegionOutcomes[5] = [kind |-> "http", status |-> HttpOk, body |-> List(<<>>)]
    /\ sampleCalls = 0
    /\ bulkResult = LiveRegion("americas") \o LiveRegion("asia")

(***************************************************************************)
(* Properties of the generation functions.                                 *)
(***************************************************************************)
UnavailableMessage(fn) ==
    CASE fn = "ask_gemini" -> AskUnavailable
      [] fn = "generate_country_insight" -> InsightUnavailable
      [] OTHER -> ApiNotConfigured

ErrorMessage(fn) ==
    CASE fn = "ask_gemini" -> AskError
      [] fn = "generate_country_insight" -> InsightError
      [] fn = "generate_travel_guide" -> TravelError
      [] OTHER -> ComparisonError

GoodResponse == [kind |-> "http", status |-> HttpOk, body |-> List(<<France>>)]

\* the handler fetched its first country and the service answered well
FetchedFromGoodResponse ==
    /\ genHandler \in {"insight_button", "travel_button", "comparison_button"}
    /\ Len(genFetched) > 0
    /\ genName1 /= ""
    /\ genResp1 = GoodResponse

\* C4: without the credential every generation function returns its
\* unavailable message and makes no call of the generative service; no
\* call is ever both attempted and reported unavailable; the country fetch
\* still returns the record.
C4_UnavailableWithoutCall ==
    /\ ~credential =>
        /\ genCalls = 0
        /\ (genFn /= "none" => genResult = Str(UnavailableMessage(genFn)))
        /\ (FetchedFromGoodResponse => genFetched[1] \in {France, Normalize(France)})
    /\ (genFn /= "none" /\ genResult = Str(UnavailableMessage(genFn))) => genCalls = 0

C4_Witness ==
    /\ ~credential
    /\ genFn = "generate_travel_guide"
    /\ genResult = Str(ApiNotConfigured)
    /\ genCalls = 0
    /\ genFetched = <<France>>

\* the call of the generative service raised inside the try block
GenerationRaised(fn) ==
    \/ genOutcome.kind = "raise"
    \/ genOutcome.text = TextRaises
    \/ (fn \in {"generate_travel_guide", "generate_country_comparison"}
            /\ genOutcome.text = Missing)

\* C7: an exception raised while calling the generative service is caught
\* in the generation function, which returns its request-error message; no
\* exception reaches the caller.
C7_GenerationErrorsCaught ==
    (genFn /= "none" /\ genCalls > 0 /\ GenerationRaised(genFn)) =>
        /\ ~genRaised
        /\ genResult = Str(ErrorMessage(genFn))

C7_Witness ==
    /\ genFn = "generate_country_insight"
    /\ genOutcome.kind = "raise"
    /\ genCalls = 1
    /\ genResult = Str(InsightError)
    /\ ~genRaised

(***************************************************************************)
(* Properties of the chat session.                                         *)
(***************************************************************************)
History == IF "chat_history" \in DOMAIN session_state THEN chat_history ELSE <<>>

Alternates(h) ==
    \A i \in 1..Len(h) : h[i].role = (IF i % 2 = 1 THEN "user" ELSE "assistant")

\* C3: after N submissions the transcript has 2N entries, user and
\* assistant alternating, whatever the generations did; while the N-th
\* generation runs it has 2N-1, so each assistant turn precedes the next
\* user turn.
C3_TwoEntriesPerSubmission ==
    /\ Alternates(History)
    /\ chatPc = "idle" => Len(History) = 2 * submissions
    /\ chatPc = "generating" => Len(History) = 2 * submissions - 1

C3_Witness ==
    /\ credential
    /\ chatPc = "idle"
    /\ submissions = 2
    /\ Len(History) = 4
    /\ History[2].content = AskError
    /\ History[4].content = "Paris is the capital."

IsPrefix(a, b) == Len(a) <= Len(b) /\ SubSeq(b, 1, Len(a)) = a

C10_TranscriptGrows ==
    [][ LET old == History
            new == IF "chat_history" \in DOMAIN session_state'
                   THEN session_state'["chat_history"] ELSE <<>>
        IN  IsPrefix(old, new) ]_vars

C10_Witness ==
    /\ chatPc = "idle"
    /\ Len(History) = 4
    /\ country_data = None

(***************************************************************************)
(* Properties of the single-country fetch.                                 *)
(***************************************************************************)
FetchFields ==
    {"name", "official_name", "capital", "region", "subregion", "population",
     "area", "languages", "currencies", "flag"}

\* every field of a normalized record holds a value or a placeholder
FullyPopulated(r) ==
    /\ DOMAIN r = FetchFields
    /\ \A f \in FetchFields : r[f] /= None /\ r[f] /= Missing

PageFetchDone == fetchFn \in {"chatbot", "insight"}

\* the service answered 200 with a non-empty array
LookupFound ==
    /\ fetchResp.kind = "http"
    /\ fetchResp.status = HttpOk
    /\ fetchResp.body /= BadJson
    /\ Len(fetchResp.body.v) > 0

FirstEntry == fetchResp.body.v[1]

\* C5: for every name and every response the page fetch returns either a
\* record whose every field holds a value or placeholder, or None, and
\* no exception leaves it.
C5_FetchTotalAndComplete ==
    PageFetchDone =>
        /\ ~fetchRaised
        /\ (fetchResult = None \/ FullyPopulated(fetchResult))

\* C6: a found entry without a capital gives capital "Unknown"; without
\* languages (currencies) it gives an empty list, never None.
C6_Placeholders ==
    (PageFetchDone /\ fetchName /= "" /\ LookupFound
        /\ FirstEntry.name.t \in {"missing", "dict"}) =>
        /\ (FirstEntry.capital = Missing =>
                fetchResult /= None /\ fetchResult.capital = Str("Unknown"))
        /\ (fetchResult /= None /\ FirstEntry.languages \in {Missing, None, Dict(<<>>)} =>
                fetchResult.languages = List(<<>>))
        /\ (fetchResult /= None /\ FirstEntry.currencies \in {Missing, None, Dict(<<>>)} =>
                fetchResult.currencies = List(<<>>))

C6_Witness ==
    /\ PageFetchDone /\ fetchName = "France" /\ LookupFound
    /\ FirstEntry.capital = Missing
    /\ FirstEntry.languages = Missing
    /\ FirstEntry.currencies = Missing
    /\ fetchResult /= None
    /\ fetchResult.capital = Str("Unknown")
    /\ fetchResult.languages = List(<<>>)
    /\ fetchResult.currencies = List(<<>>)

\* C8: the fetch called with an empty or whitespace-only name returns None
\* and issues no request.
C8_BlankNameNoRequest ==
    (fetchFn /= "none" /\ IsBlank(fetchName)) =>
        fetchResult = None /\ fetchRequests = <<>>

(***************************************************************************)
(* Termination of the directory requests.                                  *)
(***************************************************************************)
RequestTimeout(req) == req[3]

\* C11: every dispatched directory request carries a timeout, so that it
\* resolves to a value or to the absence marker instead of waiting for ever
C11_RequestsCarryTimeout ==
    \A i \in 1..Len(fetchRequests) : RequestTimeout(fetchRequests[i]) /= None

(***************************************************************************)
(* Properties of the dashboard.                                            *)
(***************************************************************************)
Aggregated == dashPc = "done"

Among(list, country) == \E i \in 1..Len(list) : list[i] = country

PositionIn(list, country) == CHOOSE i \in 1..Len(list) : list[i] = country

NamesOf(list) == [i \in 1..Len(list) |-> CountryGet(list[i], "name", "")]

PopulationOf(country) == CountryGet(country, "population", 0)

RegionMatches(country) ==
    selected_region = "All" \/ CountryGet(country, "region", "") = selected_region

\* C12: the filter keeps a record if and only if its region matches the
\* selected region (or the selection is "All") and its population is at
\* least the minimum; a population equal to the minimum is kept
C12_FilterKeepsIff ==
    Aggregated =>
        /\ \A i \in 1..Len(countries_data) :
              Among(kept, countries_data[i]) <=>
                  (RegionMatches(countries_data[i])
                   /\ PopulationOf(countries_data[i]) >= min_population)
        /\ \A i \in 1..Len(kept) : Among(countries_data, kept[i])

\* a record at the minimum is kept, one is dropped for its region and one for
\* its population
C12_Witness ==
    /\ Aggregated
    /\ min_population > 0
    /\ \E i \in 1..Len(kept) : PopulationOf(kept[i]) = min_population
    /\ \E i \in 1..Len(countries_data) :
          ~RegionMatches(countries_data[i]) /\ ~Among(kept, countries_data[i])
    /\ \E i \in 1..Len(countries_data) :
          /\ RegionMatches(countries_data[i])
          /\ PopulationOf(countries_data[i]) < min_population
          /\ ~Among(kept, countries_data[i])

InKeyOrder(a, b) ==
    IF sort_by \in {"Population", "Area"}
    THEN SortKey(a, sort_by) >= SortKey(b, sort_by)
    ELSE SortKey(a, sort_by) <= SortKey(b, sort_by)

TieExample ==
    << [name |-> "B", region |-> "Asia", population |-> 5 * Million, area |-> 7],
       [name |-> "A", region |-> "Europe", population |-> 5 * Million, area |-> 9],
       [name |-> "C", region |-> "Asia", population |-> 10 * Million, area |-> 7] >>

\* C13: the sorted list holds the filtered records ordered by the key,
\* descending for population and area and ascending for the name, and
\* records with equal keys keep the order of the fetch; [B(5), A(5), C(10)]
\* by population gives [C, B, A], and the sample records of Asia come out
\* as China, India, Japan
C13_StableSort ==
    Aggregated =>
        /\ Len(ordered) = Len(kept)
        /\ \A i \in 1..Len(kept) : Among(ordered, kept[i])
        /\ \A i, j \in 1..Len(ordered) :
              i < j =>
                /\ InKeyOrder(ordered[i], ordered[j])
                /\ SortKey(ordered[i], sort_by) = SortKey(ordered[j], sort_by)
                      => PositionIn(kept, ordered[i]) < PositionIn(kept, ordered[j])
        /\ (kept = TieExample /\ sort_by = "Population")
              => NamesOf(ordered) = <<"C", "B", "A">>
        /\ (countries_data = get_sample_data /\ selected_region = "Asia"
              /\ sort_by = "Population")
              => NamesOf(ordered) = <<"China", "India", "Japan">>

\* the list with the tie has been sorted by population
C13_Witness ==
    /\ Aggregated
    /\ kept = TieExample
    /\ sort_by = "Population"
    /\ NamesOf(ordered) = <<"C", "B", "A">>

\* C14: the count, the two totals and the average are those of the shown
\* list; the average is the total population over the count, and 0 when the
\* shown list is empty
C14_StatsOverShown ==
    Aggregated =>
        /\ total_countries = Len(filtered_countries)
        /\ total_population = SumOf(filtered_countries, "population")
        /\ total_area = SumOf(filtered_countries, "area")
        /\ total_countries > 0 => avg_population = Ratio(total_population, total_countries)
        /\ total_countries = 0 => avg_population = Ratio(Big(0), 1)

\* the slice dropped records with a population, and the figures are those
\* of the records left
C14_Witness ==
    /\ Aggregated
    /\ Len(filtered_countries) < Len(ordered)
    /\ total_countries = country_limit
    /\ total_population /= SumOf(ordered, "population")
    /\ avg_population = Ratio(SumOf(filtered_countries, "population"), country_limit)

\* C15: the shown list is the first country_limit records of the sorted
\* list: as long as the smaller of the limit and the number of filtered
\* records, and equal to the sorted list position by position
C15_ShownIsPrefix ==
    Aggregated =>
        /\ Len(filtered_countries) =
              (IF country_limit < Len(kept) THEN country_limit ELSE Len(kept))
        /\ \A i \in 1..Len(filtered_countries) : filtered_countries[i] = ordered[i]

\* more records passed the filter than the limit shows
C15_Witness ==
    /\ Aggregated
    /\ Len(kept) > country_limit
    /\ Len(filtered_countries) = country_limit
    /\ filtered_countries = SubSeq(ordered, 1, country_limit)

\* C16: aggregation leaves the fetched list as it was, the same records in
\* the same order
C16_InputNotMutated == [][countries_data' = countries_data]_vars

\* the aggregation dropped records, reordered the rest and cut the result,
\* and the fetched list is still the sample list
C16_Witness ==
    /\ Aggregated
    /\ countries_data = get_sample_data
    /\ Len(kept) < Len(countries_data)
    /\ ordered /= kept
    /\ filtered_countries /= ordered

(***************************************************************************)
(* Properties of the prompt composers.                                     *)
(***************************************************************************)
\* the fields of a country record that a line of a prompt renders
FieldsOfLabel(label) ==
    CASE label \in {"Name: {} (official: {})", "- Name: {}", "{}:",
                    "Create a detailed {}-day travel guide for {} specifically for {}."}
           -> <<"name">>
      [] label \in {"Capital: {}", "- Capital: {}"} -> <<"capital">>
      [] label = "Region: {} | Subregion: {}" -> <<"region", "subregion">>
      [] label \in {"Region: {}", "- Region: {}"} -> <<"region">>
      [] label = "- Subregion: {}" -> <<"subregion">>
      [] label \in {"Population: {:,}", "- Population: {}"} -> <<"population">>
      [] label \in {"Area: {:,} km2", "- Area: {} km2"} -> <<"area">>
      [] label \in {"Languages: {}", "- Languages: {}"} -> <<"languages">>
      [] label \in {"Currencies: {}", "- Currencies: {}"} -> <<"currencies">>
      [] OTHER -> <<>>

\* the fields a prompt renders, in the order of its lines
RECURSIVE RenderedFields(_)
RenderedFields(prompt) ==
    IF Len(prompt) = 0 THEN <<>>
    ELSE FieldsOfLabel(prompt[1].k) \o RenderedFields(Tail(prompt))

FixedOrder ==
    <<"name", "capital", "region", "subregion", "population", "area", "languages",
      "currencies">>

HasLine(prompt, label) == \E i \in 1..Len(prompt) : prompt[i].k = label

\* the country records handed to the composer that ran
SuppliedRecords ==
    CASE compFn = "build_prompt" -> IF Fetched(compEntry1) = None THEN 0 ELSE 1
      [] compFn = "generate_country_insight" ->
            IF Fetched(compEntry2) = None THEN 1 ELSE 2
      [] compFn = "generate_travel_guide" -> 1
      [] OTHER -> 2

ComposedPrompt == compFn /= "none" /\ ~compRaised

\* C17: every composer renders the fields of each supplied record in the
\* order name, capital, region, subregion, population, area, languages,
\* currencies
C17_FixedFieldOrder ==
    ComposedPrompt =>
        RenderedFields(compPrompt) =
            (IF SuppliedRecords = 0 THEN <<>>
             ELSE IF SuppliedRecords = 1 THEN FixedOrder
             ELSE FixedOrder \o FixedOrder)

\* C18: when the record handed to the chat composer, or the comparison
\* record handed to the insight composer, is absent, composing does not
\* fail and the prompt holds the no-data sentence where the fields of the
\* record would stand
C18_AbsentRecordSentence ==
    /\ (compFn = "build_prompt" /\ Fetched(compEntry1) = None) =>
          /\ ~compRaised
          /\ HasLine(compPrompt, "No country data available.")
          /\ RenderedFields(compPrompt) = <<>>
    /\ (compFn = "generate_country_insight" /\ Fetched(compEntry2) = None
          /\ ~FormatBlockRaises(Fetched(compEntry1))) =>
          /\ ~compRaised
          /\ \E i \in 1..Len(compPrompt) - 1 :
                /\ compPrompt[i].k = "Comparison country data:"
                /\ compPrompt[i + 1].k = "No comparison country provided."
          /\ RenderedFields(compPrompt) = FixedOrder

\* an insight was composed for France alone
C18_Witness ==
    /\ compFn = "generate_country_insight"
    /\ compEntry1 = France
    /\ Fetched(compEntry2) = None
    /\ HasLine(compPrompt, "No comparison country provided.")
    /\ ~compRaised

(***************************************************************************)
(* Empty responses of the generative service.                              *)
(***************************************************************************)
\* the service answered, and the answer carries no text
NoTextPayload ==
    genOutcome.kind = "response" /\ genOutcome.text \in {None, Missing}

\* C19: when the service answers without a text, every generation function
\* returns a message for the user (the empty-response message where the
\* function has one), never a null text
C19_EmptyResponseMessage ==
    (genFn /= "none" /\ genCalls > 0 /\ NoTextPayload) =>
        /\ genResult /= None
        /\ genFn = "ask_gemini" => genResult = Str(AskEmpty)
        /\ genFn = "generate_country_insight" => genResult = Str(InsightEmpty)

(***************************************************************************)
(* Totality of the bulk fetch.                                             *)
(***************************************************************************)
\* C20: whatever the /all request and the region requests answer, no
\* exception leaves get_all_countries, and once it has returned the result
\* is the live list, the regions' list or the sample list
C20_BulkFetchTotal ==
    /\ bulkPc /= "raised"
    /\ bulkPc = "done" =>
          \/ bulkResult = get_sample_data
          \/ bulkResult = LiveAll
          \/ bulkResult = SuccessfulRecords(bulkRegionOutcomes)

TimesRequested(req) ==
    Cardinality({i \in 1..Len(bulkRequests) : bulkRequests[i] = req})

\* the /all request, if made, is the first one; no region is requested
\* twice; the sample list is built at most once
TiersOnce ==
    /\ \A i \in 1..Len(bulkRequests) : bulkRequests[i] = <<"all">> <=> i = 1
    /\ \A i \in 1..Len(regions) : TimesRequested(<<"region", regions[i]>>) <= 1
    /\ Len(bulkRequests) <= 1 + Len(regions)
    /\ sampleCalls <= 1

\* C22: in one bulk fetch the /all endpoint is requested at most once and
\* first, every region at most once, the sample list is built at most once,
\* and once the sample list has been built nothing is requested any more
C22_EachTierOnce ==
    [][ /\ TiersOnce'
        /\ sampleCalls >= 1 =>
              (bulkRequests' = bulkRequests /\ sampleCalls' = sampleCalls) ]_vars

\* the fetch went through the three tiers: /all, the five regions, the sample
C22_Witness ==
    /\ bulkPc = "done"
    /\ Len(bulkRequests) = 1 + Len(regions)
    /\ sampleCalls = 1
    /\ bulkResult = get_sample_data

(***************************************************************************)
(* The transcript inside the chat prompt.                                  *)
(***************************************************************************)
IsTurnLine(line) == line.k = "{ROLE}: {content}"

\* the transcript lines of a prompt, in the order they stand in it
TranscriptOf(prompt) == SelectSeq(prompt, IsTurnLine)

\* the message on the line under "User's latest question:"
LatestQuestion(prompt) ==
    LET i == CHOOSE j \in 1..Len(prompt) : prompt[j].k = "User's latest question:"
    IN  prompt[i + 1].v[1]

\* C23: the prompt of the k-th submission is composed from a transcript of
\* 2k-1 turns that ends with the user turn just submitted, that is after
\* the user turn was appended and before the assistant turn is
C23_UserTurnBeforePrompt ==
    Len(pending) > 0 =>
        LET turns == TranscriptOf(pending[1])
        IN  /\ Len(turns) = 2 * submissions - 1
            /\ turns[Len(turns)].v = <<Str("USER"), LatestQuestion(pending[1])>>
            /\ turns = HistoryLines(History)
            /\ History[Len(History)].role = "user"

\* the second submission is being answered: its prompt holds three turns
C23_Witness ==
    /\ chatPc = "generating"
    /\ submissions = 2
    /\ Len(pending) = 1
    /\ Len(TranscriptOf(pending[1])) = 3
    /\ LatestQuestion(pending[1]) = Str("And the population?")

UpperCased(role) ==
    CASE role = "user" -> "USER"
      [] role = "assistant" -> "ASSISTANT"

LineIndex(prompt, label) == CHOOSE i \in 1..Len(prompt) : prompt[i].k = label

\* C24: the chat prompt holds one line per turn of the transcript, the
\* upper-cased role and the content, in the order of the transcript, all of
\* them under "Conversation so far:" and above the country data block
C24_TranscriptSerialized ==
    (compFn = "build_prompt" /\ ~compRaised) =>
        LET first == LineIndex(compPrompt, "Conversation so far:")
            block == LineIndex(compPrompt, "Structured REST Countries API info:")
        IN  /\ block = first + Len(compHistory) + 1
            /\ \A i \in 1..Len(compHistory) :
                  /\ IsTurnLine(compPrompt[first + i])
                  /\ compPrompt[first + i].v =
                        <<Str(UpperCased(compHistory[i].role)), Str(compHistory[i].content)>>
            /\ Len(TranscriptOf(compPrompt)) = Len(compHistory)
            /\ \A i \in 1..Len(compPrompt) :
                  FieldsOfLabel(compPrompt[i].k) /= <<>> => i > block

\* a transcript of three turns and the record of France were composed
C24_Witness ==
    /\ compFn = "build_prompt"
    /\ Len(compHistory) = 3
    /\ Fetched(compEntry1) /= None
    /\ Len(TranscriptOf(compPrompt)) = 3
    /\ HasLine(compPrompt, "- Capital: {}")

(***************************************************************************)
(* The list the bulk fetch hands to the dashboard.                         *)
(***************************************************************************)
\* C25: whenever get_all_countries returns, on the /all path, the regions
\* path or the sample path, the list holds at least one record
C25_NeverEmpty == bulkPc = "done" => Len(bulkResult) >= 1

\* /all answered 200 with an empty array, the fetch went on to the regions
\* and returned records
C25_Witness ==
    /\ bulkPc = "done"
    /\ bulkAllOutcome.kind = "http"
    /\ bulkAllOutcome.status = HttpOk
    /\ bulkAllOutcome.body /= BadJson
    /\ Len(bulkAllOutcome.body.v) = 0
    /\ sampleCalls = 0
    /\ Len(bulkResult) >= 1

(***************************************************************************)
(* The guards of the one-shot handlers.                                    *)
(***************************************************************************)
OneShotHandlers == {"insight_button", "travel_button", "comparison_button"}

\* a record the directory service found
Present(record) == record /= None /\ record /= EmptyEntry

\* the records the handler needs: the primary one on the insight page, the
\* country of the travel guide, both countries of the comparison
RequiredPresent ==
    CASE genHandler = "insight_button" -> genFetched[1] /= None
      [] genHandler = "travel_button" ->
            Len(genFetched) = 1 /\ Present(genFetched[1])
      [] genHandler = "comparison_button" ->
            Len(genFetched) = 2 /\ Present(genFetched[1]) /\ Present(genFetched[2])
      [] OTHER -> TRUE

Shows(text) == \E i \in 1..Len(genShown) : genShown[i] = text

\* the message names every country that was looked up and not found
NamesMissing ==
    /\ (genHandler = "travel_button" /\ Len(genFetched) = 1) => Shows(genName1)
    /\ (genHandler = "comparison_button" /\ Len(genFetched) = 2) =>
          /\ ~Present(genFetched[1]) => Shows(genName1)
          /\ ~Present(genFetched[2]) => Shows(genName2)

\* C26: a one-shot handler calls its generation function only when the
\* records it needs are present; when one is absent it shows a message
\* (naming the countries not found) and makes no generation call
C26_NoGenerationWithoutRecord ==
    genHandler \in OneShotHandlers =>
        /\ (genFn /= "none" \/ genCalls > 0) => RequiredPresent
        /\ (~RequiredPresent /\ ~genRaised) =>
              /\ genFn = "none"
              /\ genCalls = 0
              /\ genPrompt = <<>>
              /\ Len(genShown) > 0
              /\ NamesMissing

\* the comparison found the first country and not the second
C26_Witness ==
    /\ genHandler = "comparison_button"
    /\ Len(genFetched) = 2
    /\ Present(genFetched[1])
    /\ genFetched[2] = None
    /\ genCalls = 0
    /\ genShown = <<"Could not find data for:", genName2>>

====
